---- MODULE Spec2Model ----
(***************************************************************************)
(* Discovery / triage engine of the Stellar Verification Program           *)
(* (backend/app.py): role assignment, priority scoring and the             *)
(* /api/discovery handler (enrich, filter, sort, summarise, paginate).     *)
(*                                                                         *)
(* Floats are scaled to integers, one fixed unit per quantity:             *)
(*   conf_prob, fp_prob      1e-5   (0.65  -> 65000)                       *)
(*   radius, regressor out   1e-4   (1.5   -> 15000)                       *)
(*   insol                   1e-4   (0.25  -> 2500)                        *)
(*   koi_period              1e-5                                          *)
(*   koi_model_snr           0.1    (15    -> 150)                         *)
(*   koi_depth               1 ppm                                         *)
(*   koi_steff               1 K                                           *)
(*   koi_srad, koi_slogg     0.01   (0.7   -> 70, 3.5 -> 350)              *)
(* Python's None is the empty sequence, a present value v is <<v>>.        *)
(* The free-text fields of a role assignment (task, reason, deliverable,   *)
(* timeline, icon) carry no decision and are not part of the records.      *)
(***************************************************************************)
EXTENDS Integers, Sequences, FiniteSets, TLC

VARIABLES
    cand,      \* the candidate a pure function is applied to: params, koi_count, insol, has_err_data
    pred,      \* the model outputs it is called with: conf_prob, fp_prob, radius; None before the call
    roles,     \* the list _assign_roles returned for cand and pred
    score,     \* the value _compute_priority_score returned for cand and pred
    enriched,  \* the record the discovery loop built for cand and pred; None before
    rows,      \* data/koi_data.csv: the rows of the dataset, in file order
    phase,     \* "idle", "received" (a request is in the handler) or "answered"
    args,      \* request.args of the /api/discovery request: the raw query string values
    req,       \* page, per_page, ..., min_score: the handler's parsed query parameters
    resp,      \* the handler's response to req; NoResponse until it has answered
    disk,      \* models/: state of classifier.pkl, regressor.pkl and scaler.pkl
    _classifier, \* ml_pipeline.inference._classifier: None or the loaded model
    _regressor,  \* ml_pipeline.inference._regressor: None or the loaded model
    thr,       \* the request each server thread is handling and where it is in it
    reads,     \* number of times classifier.pkl has been read from disk
    stored,    \* number of rows of the Prediction table
    started,   \* number of requests the server has accepted
    half_run,  \* a prediction call has run while exactly one model was loaded
    predict_ok \* number of /api/predict responses sent with status 200

serve == <<disk, _classifier, _regressor, thr, reads, stored, started, half_run, predict_ok>>

vars == <<cand, pred, roles, score, enriched, rows, phase, args, req, resp, serve>>

None == <<>>
Some(v) == <<v>>
IsNone(x) == x = <<>>
Val(x) == x[1]

Min(a, b) == IF a <= b THEN a ELSE b

\* ------------------------------------------------------------------------
\* _assign_roles (app.py 293-462)
\* ------------------------------------------------------------------------

\* The habitable-zone check at the head of _assign_roles.
AssignRolesInHz(insol) ==
    IF ~IsNone(insol) /\ Val(insol) > 0
    THEN 2500 <= Val(insol) /\ Val(insol) <= 17500
    ELSE FALSE

\* Mutant: the HIGH tier takes the instrument's 2 R_earth cut for the 4 R_earth one.
RadialVelocityObserverSmallOnly(conf_prob, radius, in_hz) ==
    IF conf_prob >= 65000
    THEN << [ role |-> "Radial Velocity Observer",
              priority |-> IF in_hz /\ radius < 20000 THEN "HIGH"
                           ELSE IF conf_prob > 80000 THEN "MEDIUM" ELSE "STANDARD",
              instrument |-> IF radius < 20000 THEN "ESPRESSO"
                             ELSE IF radius < 60000 THEN "HARPS-N" ELSE "HIRES" ] >>
    ELSE << >>

\* Mutant: the role needs a confirmation probability of 0.90.
RadialVelocityObserverAbove90(conf_prob, radius, in_hz) ==
    IF conf_prob >= 90000
    THEN << [ role |-> "Radial Velocity Observer",
              priority |-> IF in_hz /\ radius < 40000 THEN "HIGH"
                           ELSE IF conf_prob > 80000 THEN "MEDIUM" ELSE "STANDARD",
              instrument |-> IF radius < 20000 THEN "ESPRESSO"
                             ELSE IF radius < 60000 THEN "HARPS-N" ELSE "HIRES" ] >>
    ELSE << >>

RadialVelocityObserver(conf_prob, radius, in_hz) ==
    IF conf_prob >= 65000
    THEN << [ role |-> "Radial Velocity Observer",
              priority |-> IF in_hz /\ radius < 40000 THEN "HIGH"
                           ELSE IF conf_prob > 80000 THEN "MEDIUM" ELSE "STANDARD",
              instrument |-> IF radius < 20000 THEN "ESPRESSO"
                             ELSE IF radius < 60000 THEN "HARPS-N" ELSE "HIRES" ] >>
    ELSE << >>

\* Mutant: the upper end of the confidence band is exclusive.
TransitPhotometristOpenBand(conf_prob, params) ==
    LET depth == params.koi_depth
        snr   == params.koi_model_snr
    IN  IF (40000 <= conf_prob /\ conf_prob < 85000) \/ snr < 150 \/ depth < 100
        THEN << [ role |-> "Transit Photometrist",
                  priority |-> IF snr < 100 THEN "HIGH"
                               ELSE IF conf_prob < 65000 THEN "MEDIUM" ELSE "STANDARD",
                  instrument |-> IF depth < 200 THEN "CHEOPS" ELSE "TESS Extended" ] >>
        ELSE << >>

TransitPhotometrist(conf_prob, params) ==
    LET depth == params.koi_depth
        snr   == params.koi_model_snr
    IN  IF (40000 <= conf_prob /\ conf_prob <= 85000) \/ snr < 150 \/ depth < 100
        THEN << [ role |-> "Transit Photometrist",
                  priority |-> IF snr < 100 THEN "HIGH"
                               ELSE IF conf_prob < 65000 THEN "MEDIUM" ELSE "STANDARD",
                  instrument |-> IF depth < 200 THEN "CHEOPS" ELSE "TESS Extended" ] >>
        ELSE << >>

\* Mutant: a false-positive probability of exactly 0.50 is not yet HIGH.
CentroidAnalystStrictHigh(fp_prob) ==
    IF fp_prob >= 25000
    THEN << [ role |-> "Centroid Analyst",
              priority |-> IF fp_prob > 50000 THEN "HIGH" ELSE "MEDIUM",
              instrument |-> "Kepler TPF / Gaia DR3" ] >>
    ELSE << >>

CentroidAnalyst(fp_prob) ==
    IF fp_prob >= 25000
    THEN << [ role |-> "Centroid Analyst",
              priority |-> IF fp_prob >= 50000 THEN "HIGH" ELSE "MEDIUM",
              instrument |-> "Kepler TPF / Gaia DR3" ] >>
    ELSE << >>

StatisticalValidator(conf_prob) ==
    IF 35000 <= conf_prob /\ conf_prob <= 80000
    THEN << [ role |-> "Statistical Validator",
              priority |-> IF 45000 <= conf_prob /\ conf_prob <= 65000
                           THEN "HIGH" ELSE "MEDIUM",
              instrument |-> "VESPA / BLENDER" ] >>
    ELSE << >>

AtmosphericScientist(conf_prob, radius, params, in_hz) ==
    LET srad  == params.koi_srad
        steff == params.koi_steff
    IN  IF /\ conf_prob >= 75000
           /\ radius >= 15000
           /\ radius <= 100000
           /\ (in_hz \/ (steff < 4500 /\ srad < 70))
        THEN << [ role |-> "Atmospheric Scientist",
                  priority |-> IF in_hz /\ radius < 40000 THEN "HIGH" ELSE "MEDIUM",
                  instrument |-> "JWST NIRSpec / Ariel" ] >>
        ELSE << >>

StellarCharacterization(params, has_err_data) ==
    LET srad  == params.koi_srad
        steff == params.koi_steff
        slogg == params.koi_slogg
        unusual_star == srad > 300 \/ slogg < 350 \/ steff > 7500
    IN  IF unusual_star \/ ~has_err_data
        THEN << [ role |-> "Stellar Characterization",
                  priority |-> IF srad > 500 \/ slogg < 300 THEN "HIGH" ELSE "MEDIUM",
                  instrument |-> "High-res spectrograph + isochrone fitting" ] >>
        ELSE << >>

DynamicalAnalyst(koi_count) ==
    IF ~IsNone(koi_count) /\ Val(koi_count) > 1
    THEN << [ role |-> "Dynamical Analyst",
              priority |-> IF Val(koi_count) >= 3 THEN "HIGH" ELSE "MEDIUM",
              instrument |-> "Kepler Long-Cadence + N-body sim" ] >>
    ELSE << >>

\* Mutant: the assignments are returned with the HIGH ones first.
AssignRolesHighFirst(conf_prob, fp_prob, radius, params, koi_count, insol, has_err_data) ==
    LET in_hz == AssignRolesInHz(insol)
        all == RadialVelocityObserver(conf_prob, radius, in_hz)
               \o TransitPhotometrist(conf_prob, params)
               \o CentroidAnalyst(fp_prob)
               \o StatisticalValidator(conf_prob)
               \o AtmosphericScientist(conf_prob, radius, params, in_hz)
               \o StellarCharacterization(params, has_err_data)
               \o DynamicalAnalyst(koi_count)
        High(a) == a.priority = "HIGH"
        NotHigh(a) == a.priority # "HIGH"
    IN  SelectSeq(all, High) \o SelectSeq(all, NotHigh)

_assign_roles(conf_prob, fp_prob, radius, params, koi_count, insol, has_err_data) ==
    LET in_hz == AssignRolesInHz(insol)
    IN  RadialVelocityObserver(conf_prob, radius, in_hz)
        \o TransitPhotometrist(conf_prob, params)
        \o CentroidAnalyst(fp_prob)
        \o StatisticalValidator(conf_prob)
        \o AtmosphericScientist(conf_prob, radius, params, in_hz)
        \o StellarCharacterization(params, has_err_data)
        \o DynamicalAnalyst(koi_count)

\* ------------------------------------------------------------------------
\* _compute_priority_score (app.py 465-504)
\* ------------------------------------------------------------------------

ScoreConfidence(conf_prob) ==
    IF 60000 <= conf_prob /\ conf_prob <= 90000 THEN 30
    ELSE IF conf_prob > 90000 THEN 20
    ELSE IF 40000 <= conf_prob /\ conf_prob < 60000 THEN 25
    ELSE 5

\* Mutant: the full bonus is given in the whole optimistic zone.
ScoreHabitableZoneWide(insol) ==
    IF ~IsNone(insol) /\ 1000 <= Val(insol) /\ Val(insol) <= 30000 THEN 25
    ELSE 0

ScoreHabitableZone(insol) ==
    IF ~IsNone(insol) /\ 2500 <= Val(insol) /\ Val(insol) <= 17500 THEN 25
    ELSE IF ~IsNone(insol) /\ 1000 <= Val(insol) /\ Val(insol) <= 30000 THEN 10
    ELSE 0

ScoreSmallPlanet(radius) ==
    IF radius < 15000 THEN 20
    ELSE IF radius < 25000 THEN 15
    ELSE IF radius < 40000 THEN 10
    ELSE IF radius < 80000 THEN 5
    ELSE 0

\* Mutant: the multi-planet bonus without its cap of 5.
ScoreMultiPlanetUncapped(koi_count) ==
    IF ~IsNone(koi_count) /\ Val(koi_count) > 1
    THEN 10 + (Val(koi_count) - 1) * 2
    ELSE 0

ScoreMultiPlanet(koi_count) ==
    IF ~IsNone(koi_count) /\ Val(koi_count) > 1
    THEN 10 + Min(5, (Val(koi_count) - 1) * 2)
    ELSE 0

ScoreSnr(snr) ==
    IF snr > 200 THEN 10
    ELSE IF snr > 100 THEN 5
    ELSE 0

_compute_priority_score(conf_prob, radius, insol, koi_count, snr) ==
    Min(100, ScoreConfidence(conf_prob) + ScoreHabitableZone(insol)
             + ScoreSmallPlanet(radius) + ScoreMultiPlanet(koi_count) + ScoreSnr(snr))

\* ------------------------------------------------------------------------
\* discovery (app.py 507-679): enrich, filter, sort, summarise, paginate
\* ------------------------------------------------------------------------

\* n / d rounded to the nearest integer, ties to even, as Python's round does
\* (n >= 0, d > 0).
RoundHalfEven(n, d) ==
    LET q == n \div d
        r == n % d
    IN  IF 2 * r < d THEN q
        ELSE IF 2 * r > d THEN q + 1
        ELSE IF q % 2 = 0 THEN q ELSE q + 1

\* round(x, ndigits) on a scaled value: unit is 10^(scale digits - ndigits).
Round(x, unit) == RoundHalfEven(x, unit) * unit

\* The in_hz of the enriched record, computed apart from _assign_roles.
\* Mutant: the zone is open at its inner edge.
DiscoveryInHzOpen(insol) ==
    IF ~IsNone(insol) THEN 2500 < Val(insol) /\ Val(insol) <= 17500 ELSE FALSE

DiscoveryInHz(insol) ==
    IF ~IsNone(insol) THEN 2500 <= Val(insol) /\ Val(insol) <= 17500 ELSE FALSE

PlanetClass(radius) ==
    IF radius < 10000 THEN "Sub-Earth"
    ELSE IF radius < 20000 THEN "Earth-size"
    ELSE IF radius < 40000 THEN "Super-Earth"
    ELSE IF radius < 80000 THEN "Neptune-size"
    ELSE IF radius < 150000 THEN "Jupiter-size"
    ELSE "Super-Jupiter"

\* One pass of the result-building loop: the enriched record of the row with
\* DataFrame index idx. cls_proba, cls_pred and reg_pred are the batch
\* predictions for this row. The fields that only copy a rounded input
\* (koi_depth, koi_duration, koi_model_snr, koi_steff, koi_srad, koi_smass,
\* koi_prad, koi_insol, koi_count) are left out.
EnrichRow(idx, row) ==
    LET conf_prob == row.cls_proba[2]
        fp_prob   == row.cls_proba[1]
        radius    == IF row.reg_pred > 0 THEN row.reg_pred ELSE 0
        rs == _assign_roles(conf_prob, fp_prob, radius, row.params, row.koi_count,
                            row.koi_insol, row.has_err)
    IN  [ index |-> idx,
          koi_period |-> Round(row.koi_period, 10),
          prediction |-> IF row.cls_pred = 1 THEN "CONFIRMED" ELSE "FALSE POSITIVE",
          confirmation_probability |-> Round(conf_prob, 10),
          predicted_radius |-> Round(radius, 10),
          planet_class |-> PlanetClass(radius),
          in_habitable_zone |-> DiscoveryInHz(row.koi_insol),
          priority_score |-> _compute_priority_score(conf_prob, radius, row.koi_insol,
                                 row.koi_count, row.params.koi_model_snr),
          role_assignments |-> rs,
          num_roles |-> Len(rs) ]

\* cands: the rows whose disposition is CANDIDATE.
IsCandidate(row) == row.koi_disposition = "CANDIDATE"

\* complete: the candidates with every input feature present.
IsComplete(row) == IsCandidate(row) /\ row.complete

\* Mutant: the outputs are looked up by the row's position in the file, not
\* by its position in the batch.
BuildResultsByFilePosition(df) ==
    LET complete == SelectSeq(df, IsComplete)
        F[k \in 0..Len(df)] ==
            IF k = 0 THEN << >>
            ELSE IF IsComplete(df[k])
                 THEN LET other == complete[IF k <= Len(complete) THEN k ELSE 1]
                      IN  Append(F[k - 1],
                                 EnrichRow(k - 1, [df[k] EXCEPT !.cls_proba = other.cls_proba,
                                                                !.cls_pred = other.cls_pred,
                                                                !.reg_pred = other.reg_pred]))
                 ELSE F[k - 1]
    IN  F[Len(df)]

\* One enriched record for each row of complete, in file order, carrying its
\* 0-based DataFrame index.
BuildResults(df) ==
    LET F[k \in 0..Len(df)] ==
            IF k = 0 THEN << >>
            ELSE IF IsComplete(df[k])
                 THEN Append(F[k - 1], EnrichRow(k - 1, df[k]))
                 ELSE F[k - 1]
    IN  F[Len(df)]

\* Mutant: the minimum score is exclusive.
ApplyFiltersStrictScore(results, q) ==
    LET ByRole(r) == q.role = "" \/ \E i \in DOMAIN r.role_assignments :
                                       r.role_assignments[i].role = q.role
        ByPriority(r) == q.priority = "" \/ \E i \in DOMAIN r.role_assignments :
                                       r.role_assignments[i].priority = q.priority
        ByHz(r) == ~(q.hz_only = "true") \/ r.in_habitable_zone
        ByScore(r) == ~(q.min_score > 0) \/ r.priority_score > q.min_score
    IN  SelectSeq(SelectSeq(SelectSeq(SelectSeq(results, ByRole), ByPriority), ByHz),
                  ByScore)

ApplyFilters(results, q) ==
    LET ByRole(r) == q.role = "" \/ \E i \in DOMAIN r.role_assignments :
                                       r.role_assignments[i].role = q.role
        ByPriority(r) == q.priority = "" \/ \E i \in DOMAIN r.role_assignments :
                                       r.role_assignments[i].priority = q.priority
        ByHz(r) == ~(q.hz_only = "true") \/ r.in_habitable_zone
        ByScore(r) == ~(q.min_score > 0) \/ r.priority_score >= q.min_score
    IN  SelectSeq(SelectSeq(SelectSeq(SelectSeq(results, ByRole), ByPriority), ByHz),
                  ByScore)

\* sort_key_map.get(sort_by, sort_key_map["priority_score"]) applied to x.
SortKey(sort_by, x) ==
    CASE sort_by = "priority_score" -> x.priority_score
      [] sort_by = "conf_prob" -> x.confirmation_probability
      [] sort_by = "radius" -> x.predicted_radius
      [] sort_by = "num_roles" -> x.num_roles
      [] sort_by = "period" -> x.koi_period
      [] OTHER -> x.priority_score

\* x placed into the sorted list acc behind every element it does not have to
\* precede: the insertion step of a stable sort.
InsertStable(acc, x, sort_by, reverse) ==
    LET Precedes(a, b) == IF reverse THEN SortKey(sort_by, a) > SortKey(sort_by, b)
                          ELSE SortKey(sort_by, a) < SortKey(sort_by, b)
        before == { j \in 1..Len(acc) : \A i \in 1..j : ~Precedes(x, acc[i]) }
        n == Cardinality(before)
    IN  SubSeq(acc, 1, n) \o << x >> \o SubSeq(acc, n + 1, Len(acc))

\* Mutant: descending order obtained by sorting ascending and reversing, which
\* turns the order of equal keys around.
SortResultsByReversal(results, sort_by, sort_dir) ==
    LET F[k \in 0..Len(results)] ==
            IF k = 0 THEN << >>
            ELSE InsertStable(F[k - 1], results[k], sort_by, FALSE)
        asc == F[Len(results)]
    IN  IF sort_dir = "desc"
        THEN [i \in 1..Len(asc) |-> asc[Len(asc) + 1 - i]]
        ELSE asc

\* results.sort(key=sort_fn, reverse=(sort_dir == "desc")): list.sort is stable,
\* and with reverse=True equal keys still keep their original order.
SortResults(results, sort_by, sort_dir) ==
    LET F[k \in 0..Len(results)] ==
            IF k = 0 THEN << >>
            ELSE InsertStable(F[k - 1], results[k], sort_by, sort_dir = "desc")
    IN  F[Len(results)]

\* All assignments of the filtered results, in iteration order.
AllAssignments(results) ==
    LET F[k \in 0..Len(results)] ==
            IF k = 0 THEN << >> ELSE F[k - 1] \o results[k].role_assignments
    IN  F[Len(results)]

\* all_roles_count: a dict keeps its keys in order of first insertion.
AllRolesCount(results) ==
    LET as == AllAssignments(results)
        first == { i \in DOMAIN as : \A j \in 1..(i - 1) : as[j].role # as[i].role }
        F[k \in 0..Len(as)] ==
            IF k = 0 THEN << >>
            ELSE IF k \in first
                 THEN Append(F[k - 1],
                             [role |-> as[k].role,
                              count |-> Cardinality({ i \in DOMAIN as :
                                                        as[i].role = as[k].role })])
                 ELSE F[k - 1]
    IN  F[Len(as)]

\* Mutant: a tier counts the candidates holding an assignment of that tier.
PriorityDistPerCandidate(results) ==
    LET Count(tier) ==
            Cardinality({ k \in DOMAIN results :
                            \E i \in DOMAIN results[k].role_assignments :
                                results[k].role_assignments[i].priority = tier })
    IN  [ tier \in {"HIGH", "MEDIUM", "STANDARD"} |-> Count(tier) ]

\* priority_dist: the three keys it starts with, and a key for any other
\* priority an assignment carries (priority_dist.get(..., 0) + 1).
PriorityDist(results) ==
    LET as == AllAssignments(results)
        keys == {"HIGH", "MEDIUM", "STANDARD"} \cup { as[i].priority : i \in DOMAIN as }
        Count(tier) == Cardinality({ i \in DOMAIN as : as[i].priority = tier })
    IN  [ tier \in keys |-> Count(tier) ]

\* Mutant: the percentage is taken over the number of role instances.
RoleSummaryPerInstance(results) ==
    LET counts == AllRolesCount(results)
        instances == Len(AllAssignments(results))
    IN  [ i \in DOMAIN counts |->
            [ role |-> counts[i].role,
              count |-> counts[i].count,
              percentage |-> IF instances > 0
                             THEN RoundHalfEven(counts[i].count * 1000, instances)
                             ELSE 0 ] ]

\* sorted(all_roles_count.items(), key=lambda x: -x[1]), with the percentage of
\* each entry in units of 0.1.
RoleSummary(results) ==
    LET counts == AllRolesCount(results)
        total_filtered == Len(results)
        Place(acc, x) ==
            LET before == { j \in 1..Len(acc) : \A i \in 1..j : ~(-x.count < -acc[i].count) }
                n == Cardinality(before)
            IN  SubSeq(acc, 1, n) \o << x >> \o SubSeq(acc, n + 1, Len(acc))
        F[k \in 0..Len(counts)] ==
            IF k = 0 THEN << >> ELSE Place(F[k - 1], counts[k])
        sorted == F[Len(counts)]
    IN  [ i \in DOMAIN sorted |->
            [ role |-> sorted[i].role,
              count |-> sorted[i].count,
              percentage |-> IF total_filtered > 0
                             THEN RoundHalfEven(sorted[i].count * 1000, total_filtered)
                             ELSE 0 ] ]

SumScores(results) ==
    LET F[k \in 0..Len(results)] ==
            IF k = 0 THEN 0 ELSE F[k - 1] + results[k].priority_score
    IN  F[Len(results)]

\* Mutant: the habitable-zone count is taken inside the loop over the
\* assignments, once per assignment of a candidate in the zone.
SummaryZonePerAssignment(results) ==
    LET total_filtered == Len(results)
        confirmed_predictions ==
            Cardinality({ i \in DOMAIN results : results[i].prediction = "CONFIRMED" })
    IN  [ confirmed_predictions |-> confirmed_predictions,
          false_positive_predictions |-> total_filtered - confirmed_predictions,
          habitable_zone |->
              Cardinality({ ij \in (DOMAIN results) \X (1..7) :
                              /\ results[ij[1]].in_habitable_zone
                              /\ ij[2] \in DOMAIN results[ij[1]].role_assignments }),
          avg_priority_score |-> RoundHalfEven(SumScores(results) * 10,
                                     IF total_filtered > 1 THEN total_filtered ELSE 1),
          role_breakdown |-> RoleSummary(results),
          priority_distribution |-> PriorityDist(results) ]

Summary(results) ==
    LET total_filtered == Len(results)
        confirmed_predictions ==
            Cardinality({ i \in DOMAIN results : results[i].prediction = "CONFIRMED" })
    IN  [ confirmed_predictions |-> confirmed_predictions,
          false_positive_predictions |-> total_filtered - confirmed_predictions,
          habitable_zone |->
              Cardinality({ i \in DOMAIN results : results[i].in_habitable_zone }),
          avg_priority_score |-> RoundHalfEven(SumScores(results) * 10,
                                     IF total_filtered > 1 THEN total_filtered ELSE 1),
          role_breakdown |-> RoleSummary(results),
          priority_distribution |-> PriorityDist(results) ]

\* seq[start:stop] of Python: negative bounds count from the end, and bounds
\* beyond the list are clipped.
PySlice(seq, start, stop) ==
    LET n == Len(seq)
        Clip(i) == IF i < 0 THEN (IF n + i < 0 THEN 0 ELSE n + i)
                   ELSE IF i > n THEN n ELSE i
    IN  SubSeq(seq, Clip(start) + 1, Clip(stop))

\* Mutant: the page is cut at start + per_page - 1.
PaginateShortPage(results, page, per_page) ==
    LET start == (page - 1) * per_page
    IN  PySlice(results, start, start + per_page - 1)

Paginate(results, page, per_page) ==
    LET start == (page - 1) * per_page
    IN  PySlice(results, start, start + per_page)

\* The filtered and sorted results of a request, before pagination.
FilterSort(df, q) ==
    SortResults(ApplyFilters(BuildResults(df), q), q.sort, q.dir)

\* Mutant: the summary is taken over the page that is returned.
DiscoverySummaryOfPage(df, q) ==
    LET results == FilterSort(df, q)
        total_filtered == Len(results)
        page_results == Paginate(results, q.page, q.per_page)
    IN  IF q.per_page = 0
        THEN [ status |-> 500 ]
        ELSE [ status |-> 200,
               total_candidates |-> Len(SelectSeq(df, IsCandidate)),
               classified |-> Len(SelectSeq(df, IsComplete)),
               total_filtered |-> total_filtered,
               page |-> q.page,
               per_page |-> q.per_page,
               pages |-> (total_filtered + q.per_page - 1) \div q.per_page,
               data |-> page_results,
               summary |-> Summary(page_results) ]

\* The handler on the dataset df and the query q. per_page = 0 raises
\* ZeroDivisionError in the page count, which no handler catches: a 500.
discovery(df, q) ==
    LET results == FilterSort(df, q)
        total_filtered == Len(results)
    IN  IF q.per_page = 0
        THEN [ status |-> 500 ]
        ELSE [ status |-> 200,
               total_candidates |-> Len(SelectSeq(df, IsCandidate)),
               classified |-> Len(SelectSeq(df, IsComplete)),
               total_filtered |-> total_filtered,
               page |-> q.page,
               per_page |-> q.per_page,
               pages |-> (total_filtered + q.per_page - 1) \div q.per_page,
               data |-> Paginate(results, q.page, q.per_page),
               summary |-> Summary(results) ]

\* ------------------------------------------------------------------------
\* Inputs of the two pure functions: every threshold of the rule table and
\* of the score, with its neighbours at the resolution of the unit.
\* ------------------------------------------------------------------------

Params(depth, snr, steff, slogg, srad) ==
    [koi_depth |-> depth, koi_model_snr |-> snr, koi_steff |-> steff,
     koi_slogg |-> slogg, koi_srad |-> srad]

Candidate(params, count, insol, has_err) ==
    [params |-> params, koi_count |-> count, insol |-> insol, has_err_data |-> has_err]

Prediction(conf, fp, radius) ==
    [conf_prob |-> conf, fp_prob |-> fp, radius |-> radius]

ConfVals == {0, 34999, 35000, 39999, 40000, 44999, 45000, 64999, 65000, 65001,
             70000, 74999, 75000, 80000, 80001, 85000, 85001, 100000}
FpVals == {0, 24999, 25000, 30000, 49999, 50000, 100000}
RadiusVals == {0, 14999, 15000, 19999, 20000, 30000, 39999, 40000, 59999, 60000,
               100000, 100001}
InsolVals == {None, Some(-1), Some(0), Some(2499), Some(2500), Some(10000),
              Some(17500), Some(17501)}

\* Rule 2: SNR and depth around 10, 15 and 100, 200, in and out of the zone.
RoleCandidatesA ==
    { Candidate(Params(d, s, 5000, 440, 100), Some(1), i, TRUE) :
        s \in {80, 99, 100, 149, 150, 250}, d \in {50, 99, 100, 199, 200},
        i \in {None, Some(10000)} }

\* Rules 1 and 5: insolation around the zone, host around 4500 K and 0.7 R_sun.
RoleCandidatesB ==
    { Candidate(Params(500, 250, t, 440, sr), Some(1), i, TRUE) :
        i \in InsolVals, t \in {4499, 4500}, sr \in {69, 70} }

\* Rule 6: the host around 3 and 5 R_sun, log g 3.0 and 3.5, 7500 K, with and
\* without uncertainty fields.
RoleCandidatesC ==
    { Candidate(Params(500, 250, t, g, sr), Some(1), None, e) :
        sr \in {100, 300, 301, 500, 501}, g \in {299, 300, 349, 350, 440},
        t \in {5000, 7500, 7501}, e \in BOOLEAN }

\* Rule 7: multiplicity absent, 1, 2, 3.
RoleCandidatesD ==
    { Candidate(Params(50, 80, 5000, 440, 100), n, Some(10000), e) :
        n \in {None, Some(1), Some(2), Some(3)}, e \in BOOLEAN }

RoleCandidates == RoleCandidatesA \cup RoleCandidatesB \cup RoleCandidatesC
                  \cup RoleCandidatesD

RolePredictions ==
    { Prediction(c, f, r) : c \in ConfVals, f \in FpVals, r \in RadiusVals }

ScoreCandidates ==
    { Candidate(Params(50, s, 5000, 440, 100), n, i, TRUE) :
        i \in {None, Some(-1), Some(0), Some(999), Some(1000), Some(2499), Some(2500),
               Some(10000), Some(17500), Some(17501), Some(30000), Some(30001)},
        n \in {None, Some(1), Some(2), Some(3), Some(4), Some(6)},
        s \in {0, 100, 101, 200, 201, 250} }

ScorePredictions ==
    { Prediction(c, 100000 - c, r) :
        c \in {0, 39999, 40000, 59999, 60000, 75000, 90000, 90001, 100000},
        r \in {0, 10000, 14999, 15000, 24999, 25000, 39999, 40000, 79999, 80000} }

\* request.args.get with every default: the query of a request without parameters.
DefaultQuery == [page |-> 1, per_page |-> 20, role |-> "", priority |-> "",
                 hz_only |-> "false", sort |-> "priority_score", dir |-> "desc",
                 min_score |-> 0]
NoResponse == [status |-> 0]

\* request.args of a request without a query string: every parameter absent.
NoArgs == [page |-> None, per_page |-> None, role |-> None, priority |-> None,
           hz_only |-> None, sort |-> None, dir |-> None, min_score |-> None]

\* The threads, the module globals of ml_pipeline.inference and the models
\* directory take no part in a run on the data: models present and loaded,
\* no thread at work.
IdleThread == [kind |-> "none", pc |-> "idle", ret |-> "", input |-> "", status |-> 0]

ModelsLoaded ==
    /\ disk = [classifier |-> "ok", regressor |-> "ok", scaler |-> "ok"]
    /\ _classifier = Some("classifier.pkl")
    /\ _regressor = Some("regressor.pkl")
    /\ thr = << >>
    /\ reads = 1
    /\ stored = 0
    /\ started = 0
    /\ half_run = FALSE
    /\ predict_ok = 0

\* Nothing of the discovery endpoint takes part in a pure-function run.
IdleServer ==
    /\ rows = << >>
    /\ phase = "idle"
    /\ args = NoArgs
    /\ req = DefaultQuery
    /\ resp = NoResponse
    /\ enriched = None
    /\ ModelsLoaded

InitRoles ==
    /\ cand \in RoleCandidates
    /\ pred = None
    /\ roles = << >>
    /\ score = 0
    /\ IdleServer

InitScore ==
    /\ cand \in ScoreCandidates
    /\ pred = None
    /\ roles = << >>
    /\ score = 0
    /\ IdleServer

\* One call of _assign_roles on cand, with the model outputs of RolePredictions.
AssignRoles ==
    /\ pred = None
    /\ \E p \in RolePredictions :
        /\ pred' = p
        /\ roles' = _assign_roles(p.conf_prob, p.fp_prob, p.radius, cand.params,
                                  cand.koi_count, cand.insol, cand.has_err_data)
    /\ UNCHANGED <<cand, score, rows, phase, args, req, resp, enriched>>
    /\ UNCHANGED serve

\* One call of _compute_priority_score on cand, with the model outputs of
\* ScorePredictions.
ComputeScore ==
    /\ pred = None
    /\ \E p \in ScorePredictions :
        /\ pred' = p
        /\ score' = _compute_priority_score(p.conf_prob, p.radius, cand.insol,
                                            cand.koi_count, cand.params.koi_model_snr)
    /\ UNCHANGED <<cand, roles, rows, phase, args, req, resp, enriched>>
    /\ UNCHANGED serve

SpecRoles == InitRoles /\ [][AssignRoles]_vars
SpecScore == InitScore /\ [][ComputeScore]_vars

\* ------------------------------------------------------------------------
\* The dataset and the requests of the discovery endpoint
\* ------------------------------------------------------------------------

MaxRows == 3

Row(disposition, complete, period, params, count, insol, has_err, proba, cls, reg) ==
    [koi_disposition |-> disposition, complete |-> complete, koi_period |-> period,
     params |-> params, koi_count |-> count, koi_insol |-> insol, has_err |-> has_err,
     cls_proba |-> proba, cls_pred |-> cls, reg_pred |-> reg]

\* conf 0.70, radius 3.0, in the zone: four roles, score 65.
RowA == Row("CANDIDATE", TRUE, 1000000, Params(50, 80, 5000, 440, 100), Some(1),
            Some(10000), TRUE, <<30000, 70000>>, 1, 30000)
\* conf 0.70004 and period 10.00004, equal to RowA's once rounded; no
\* insolation, three signals, a 4 R_sun host: six roles, score 74.
RowB == Row("CANDIDATE", TRUE, 1000004, Params(500, 250, 5000, 440, 400), Some(3),
            None, TRUE, <<29996, 70004>>, 1, 12000)
\* conf 0.95, radius 3.0004 (3.000 once rounded), in the zone, no uncertainty
\* fields: three roles, score 65 as RowA.
RowC == Row("CANDIDATE", TRUE, 350000, Params(300, 250, 4000, 440, 50), None,
            Some(15000), FALSE, <<5000, 95000>>, 1, 30004)
\* conf 0.20, a negative regressor output, two signals: two roles, score 47.
RowD == Row("CANDIDATE", TRUE, 36525000, Params(2000, 300, 5000, 440, 100), Some(2),
            Some(500000), TRUE, <<80000, 20000>>, 0, -5000)
\* A candidate with an input feature missing: never classified.
RowE == Row("CANDIDATE", FALSE, 1000000, Params(50, 80, 5000, 440, 100), Some(1),
            Some(10000), TRUE, <<30000, 70000>>, 1, 30000)
\* A row that is no candidate: a confirmed planet with every feature present.
RowF == Row("CONFIRMED", TRUE, 2000000, Params(900, 400, 5500, 440, 90), Some(1),
            Some(12000), TRUE, <<10000, 90000>>, 1, 11000)

RowPool == {RowA, RowB, RowC, RowD, RowE, RowF}

\* The datasets: up to MaxRows rows of the pool in any order, each object
\* listed once.
Datasets ==
    UNION { { f \in [1..n -> RowPool] : \A i, j \in 1..n : i # j => f[i] # f[j] } :
            n \in 0..MaxRows }

Query(page, per_page, role, priority, hz_only, sort, dir, min_score) ==
    [page |-> page, per_page |-> per_page, role |-> role, priority |-> priority,
     hz_only |-> hz_only, sort |-> sort, dir |-> dir, min_score |-> min_score]

\* Every combination of the four filters, on the default sort and page.
FilterQueries ==
    { Query(1, 20, r, p, h, "priority_score", "desc", m) :
        r \in {"", "Radial Velocity Observer", "Centroid Analyst", "Dynamical Analyst"},
        p \in {"", "HIGH", "MEDIUM", "STANDARD"},
        h \in {"false", "true"},
        m \in {0, 65} }
        \cup { Query(1, 20, "", "", h, "priority_score", "desc", 66) : h \in {"false", "true"} }

\* Every sort key (and one that is none) in both directions.
SortQueries ==
    { Query(1, 20, "", "", "false", s, d, 0) :
        s \in {"priority_score", "conf_prob", "radius", "num_roles", "period", "name"},
        d \in {"asc", "desc"} }

\* Pages below, inside and beyond the range, for page sizes 0..3, unfiltered
\* in the default order and restricted to the habitable zone by period.
PageQueries ==
    { Query(pg, pp, "", "", v[1], v[2], v[3], 0) :
        pg \in (-1)..(MaxRows + 1), pp \in 0..3,
        v \in {<<"false", "priority_score", "desc">>, <<"true", "period", "asc">>} }

Queries == FilterQueries \cup SortQueries \cup PageQueries

IdleEngine ==
    /\ cand = None
    /\ pred = None
    /\ roles = << >>
    /\ score = 0
    /\ enriched = None

Init ==
    /\ rows \in Datasets
    /\ phase = "idle"
    /\ args = NoArgs
    /\ req = DefaultQuery
    /\ resp = NoResponse
    /\ IdleEngine
    /\ ModelsLoaded

Digits == << "0", "1", "2", "3", "4", "5", "6", "7", "8", "9" >>
IsDigit(c) == \E d \in 1..10 : Digits[d] = c
DigitValue(c) == (CHOOSE d \in 1..10 : Digits[d] = c) - 1

\* int(s) on a string given as its sequence of characters: an optional sign
\* and at least one decimal digit give the number, anything else raises
\* ValueError. (Blanks around the number and underscores between digits,
\* which int also accepts, are not among the characters used here.)
PyInt(s) ==
    LET signed == s # << >> /\ s[1] \in {"+", "-"}
        body == IF signed THEN Tail(s) ELSE s
        F[k \in 0..Len(body)] ==
            IF k = 0 THEN 0 ELSE 10 * F[k - 1] + DigitValue(body[k])
    IN  IF body # << >> /\ \A k \in DOMAIN body : IsDigit(body[k])
        THEN [ok |-> TRUE,
              value |-> IF signed /\ s[1] = "-" THEN 0 - F[Len(body)] ELSE F[Len(body)]]
        ELSE [ok |-> FALSE, value |-> 0]

\* str(n), as a client writes a number into the query string.
PyStr(n) ==
    LET Pos[m \in 0..99] ==
            IF m < 10 THEN << Digits[m + 1] >>
            ELSE Append(Pos[m \div 10], Digits[(m % 10) + 1])
    IN  IF n < 0 THEN << "-" >> \o Pos[0 - n] ELSE Pos[n]

\* int(request.args.get(name, default))
ArgInt(raw, default) ==
    IF raw = None THEN [ok |-> TRUE, value |-> default] ELSE PyInt(Val(raw))

\* request.args.get(name, default)
ArgStr(raw, default) == IF raw = None THEN default ELSE Val(raw)

\* The query parameters the handler reads from request.args; ok is FALSE
\* when one of the three int conversions raises ValueError.
ParseArgs(a) ==
    LET page == ArgInt(a.page, 1)
        per_page == ArgInt(a.per_page, 20)
        min_score == ArgInt(a.min_score, 0)
    IN  [ ok |-> page.ok /\ per_page.ok /\ min_score.ok,
          query |-> Query(page.value, per_page.value,
                          ArgStr(a.role, ""), ArgStr(a.priority, ""),
                          ArgStr(a.hz_only, "false"),
                          ArgStr(a.sort, "priority_score"), ArgStr(a.dir, "desc"),
                          min_score.value) ]

\* The query string a client sends to ask for q, every parameter spelled out.
RawArgs(q) ==
    [page |-> Some(PyStr(q.page)), per_page |-> Some(PyStr(q.per_page)),
     role |-> Some(q.role), priority |-> Some(q.priority),
     hz_only |-> Some(q.hz_only), sort |-> Some(q.sort), dir |-> Some(q.dir),
     min_score |-> Some(PyStr(q.min_score))]

\* The same request with every parameter left out that has its default value.
OmitDefaults(a) ==
    [k \in DOMAIN a |-> IF a[k] = RawArgs(DefaultQuery)[k] THEN None ELSE a[k]]

\* Requests with a value the handler cannot take literally: a page, page size
\* or minimum score that is no integer, an empty page, and an hz_only value
\* and a direction that are none of the known ones; and page=+2, an integer.
OddRequests ==
    { [NoArgs EXCEPT !.page = Some(<< "a", "b", "c" >>)],
      [NoArgs EXCEPT !.page = Some(<< >>)],
      [NoArgs EXCEPT !.per_page = Some(<< "1", "0", "x" >>)],
      [NoArgs EXCEPT !.min_score = Some(<< "6", ".", "5" >>)],
      [NoArgs EXCEPT !.hz_only = Some("yes")],
      [NoArgs EXCEPT !.dir = Some("up")],
      [NoArgs EXCEPT !.page = Some(<< "+", "2" >>), !.per_page = Some(<< "1" >>)] }

Requests ==
    { RawArgs(q) : q \in FilterQueries \cup PageQueries }
        \cup { OmitDefaults(RawArgs(q)) : q \in SortQueries }
        \cup OddRequests

\* A GET /api/discovery request with the query string a arrives.
Receive(a) ==
    /\ phase = "idle"
    /\ args' = a
    /\ phase' = "received"
    /\ UNCHANGED <<cand, pred, roles, score, rows, req, resp, enriched>>
    /\ UNCHANGED serve

\* scaler.transform and the batch predictions on the rows of complete. The
\* models are external; on a batch without rows scikit-learn's input
\* validation raises ValueError (an array with 0 samples), which the handler
\* does not catch, while a boundary that accepts the empty batch returns no
\* predictions: both outcomes are kept.
InferenceOutcomes(df) ==
    IF SelectSeq(df, IsComplete) = << >> THEN {"ok", "raises"} ELSE {"ok"}

\* The handler runs on the request and produces its response. A ValueError
\* of an int conversion is not caught: the framework answers 500.
Discovery ==
    /\ phase = "received"
    /\ LET parsed == ParseArgs(args)
       IN  IF parsed.ok
           THEN /\ req' = parsed.query
                /\ \E o \in InferenceOutcomes(rows) :
                      resp' = IF o = "raises" THEN [ status |-> 500 ]
                              ELSE discovery(rows, parsed.query)
           ELSE /\ req' = req
                /\ resp' = [ status |-> 500 ]
    /\ phase' = "answered"
    /\ UNCHANGED <<cand, pred, roles, score, rows, args, enriched>>
    /\ UNCHANGED serve

\* The response is returned and the request context is gone.
Return ==
    /\ phase = "answered"
    /\ phase' = "idle"
    /\ args' = NoArgs
    /\ req' = DefaultQuery
    /\ resp' = NoResponse
    /\ UNCHANGED <<cand, pred, roles, score, rows, enriched>>
    /\ UNCHANGED serve

Next == (\E a \in Requests : Receive(a)) \/ Discovery \/ Return

Spec == Init /\ [][Next]_vars

\* ------------------------------------------------------------------------
\* One pass of the discovery loop: a complete candidate and the outputs of
\* the models for it, with the probabilities of predict_proba adding up to 1.
\* ------------------------------------------------------------------------

\* Insolation absent, negative, zero and around the edges of both zones; a
\* shallow, noisy signal and a deep, clean one; alone or in a system.
EnrichCandidates ==
    { Candidate(Params(ds[1], ds[2], 5000, 440, 100), n, i, TRUE) :
        i \in {None, Some(-1), Some(0), Some(999), Some(1000), Some(2499), Some(2500),
               Some(10000), Some(17500), Some(17501), Some(30000), Some(30001)},
        ds \in {<<50, 80>>, <<300, 250>>},
        n \in {None, Some(1), Some(3)} }

EnrichPredictions ==
    { Prediction(c, 100000 - c, r) :
        c \in ConfVals, r \in {-5000, 12000, 30000, 39999, 40000, 90000} }

InitEnrich ==
    /\ cand \in EnrichCandidates
    /\ pred = None
    /\ roles = << >>
    /\ score = 0
    /\ IdleServer

\* The body of the loop on the row of cand, with the outputs p of the models.
Enrich ==
    /\ pred = None
    /\ \E p \in EnrichPredictions :
          LET row == Row("CANDIDATE", TRUE, 1000000, cand.params, cand.koi_count,
                         cand.insol, cand.has_err_data, <<p.fp_prob, p.conf_prob>>,
                         IF p.conf_prob > p.fp_prob THEN 1 ELSE 0, p.radius)
              record == EnrichRow(0, row)
          IN  /\ pred' = p
              /\ enriched' = Some(record)
              /\ roles' = record.role_assignments
              /\ score' = record.priority_score
    /\ UNCHANGED <<cand, rows, phase, args, req, resp>>
    /\ UNCHANGED serve

SpecEnrich == InitEnrich /\ [][Enrich]_vars

\* ------------------------------------------------------------------------
\* The server: threads handling /api/predict and /api/discovery requests, the
\* module globals of ml_pipeline.inference and the files of models/. The data
\* of a request is left out here; a thread is followed through the calls of
\* its handler that touch the models.
\* ------------------------------------------------------------------------

MaxThreads == 2
MaxRequests == 3

Threads == 1..MaxThreads

\* A file of models/ is there and loads, is not there, or is there and
\* cannot be unpickled. At most one of the three is at fault.
DiskStates ==
    { d \in [ {"classifier", "regressor", "scaler"} -> {"ok", "missing", "unreadable"} ] :
        Cardinality({ f \in DOMAIN d : d[f] # "ok" }) <= 1 }

\* joblib.load(path): the object, or the exception it raises. A file that
\* cannot be unpickled raises a ValueError (an incompatible scikit-learn
\* pickle) or another exception (a truncated file).
JoblibLoad(file) ==
    CASE disk[file] = "ok" -> {"loaded"}
      [] disk[file] = "missing" -> {"FileNotFoundError"}
      [] OTHER -> {"ValueError", "Exception"}

\* The status the caller gets when exc leaves the handler's body: predict
\* maps FileNotFoundError to 503, ValueError to 400 and anything else to 500;
\* discovery catches nothing, and the framework answers 500.
HandlerStatus(kind, exc) ==
    IF kind = "predict"
    THEN CASE exc = "FileNotFoundError" -> 503
           [] exc = "ValueError" -> 400
           [] OTHER -> 500
    ELSE 500

Raise(t, exc) ==
    [thr EXCEPT ![t].pc = "done", ![t].status = HandlerStatus(thr[t].kind, exc)]

Goto(t, pc) == [thr EXCEPT ![t].pc = pc]

\* Exactly one of the two models is loaded.
HalfLoaded == (_classifier = None) # (_regressor = None)

InitServe ==
    /\ disk \in DiskStates
    /\ _classifier = None
    /\ _regressor = None
    /\ thr = [t \in Threads |-> IdleThread]
    /\ reads = 0
    /\ stored = 0
    /\ started = 0
    /\ half_run = FALSE
    /\ predict_ok = 0
    /\ IdleEngine
    /\ rows = << >>
    /\ phase = "idle"
    /\ args = NoArgs
    /\ req = DefaultQuery
    /\ resp = NoResponse

data == <<cand, pred, roles, score, enriched, rows, phase, args, req, resp>>

\* A request reaches a free thread. The body of a predict request is valid,
\* lacks a field, carries a non-numeric value or a value out of range.
Accept(t, kind, input) ==
    /\ thr[t].pc = "idle"
    /\ started < MaxRequests
    /\ started' = started + 1
    /\ thr' = [thr EXCEPT ![t] = [kind |-> kind,
                                  pc |-> IF kind = "predict" THEN "validate" ELSE "scaler",
                                  ret |-> "", input |-> input, status |-> 0]]
    /\ UNCHANGED <<disk, _classifier, _regressor, reads, stored, half_run, predict_ok, data>>

\* Mutant: a row is stored for a body that is rejected.
PredictValidateStoring(t) ==
    /\ thr[t].pc = "validate"
    /\ thr' = IF thr[t].input = "valid"
              THEN Goto(t, "preprocess")
              ELSE [thr EXCEPT ![t].pc = "done", ![t].status = 400]
    /\ stored' = IF thr[t].input = "valid" THEN stored ELSE stored + 1
    /\ UNCHANGED <<disk, _classifier, _regressor, reads, started, half_run, predict_ok, data>>

\* predict: the body is read, converted and validated.
PredictValidate(t) ==
    /\ thr[t].pc = "validate"
    /\ thr' = IF thr[t].input = "valid"
              THEN Goto(t, "preprocess")
              ELSE [thr EXCEPT ![t].pc = "done", ![t].status = 400]
    /\ UNCHANGED <<disk, _classifier, _regressor, reads, stored, started, half_run, predict_ok, data>>

\* preprocess_input: the saved scaler is loaded and applied.
PredictPreprocess(t) ==
    /\ thr[t].pc = "preprocess"
    /\ \E o \in JoblibLoad("scaler") :
          thr' = IF o = "loaded" THEN Goto(t, "classification") ELSE Raise(t, o)
    /\ UNCHANGED <<disk, _classifier, _regressor, reads, stored, started, half_run, predict_ok, data>>

\* predict_classification: if _classifier is None: _load()
PredictClassification(t) ==
    /\ thr[t].pc = "classification"
    /\ thr' = IF _classifier = None
              THEN [thr EXCEPT ![t].pc = "load_exists", ![t].ret = "classify"]
              ELSE Goto(t, "classify")
    /\ UNCHANGED <<disk, _classifier, _regressor, reads, stored, started, half_run, predict_ok, data>>

\* predict_classification: _classifier.predict and predict_proba
PredictClassify(t) ==
    /\ thr[t].pc = "classify"
    /\ half_run' = (half_run \/ HalfLoaded)
    /\ thr' = Goto(t, "radius")
    /\ UNCHANGED <<disk, _classifier, _regressor, reads, stored, started, predict_ok, data>>

\* predict_radius: if _regressor is None: _load()
PredictRadius(t) ==
    /\ thr[t].pc = "radius"
    /\ thr' = IF _regressor = None
              THEN [thr EXCEPT ![t].pc = "load_exists", ![t].ret = "regress"]
              ELSE Goto(t, "regress")
    /\ UNCHANGED <<disk, _classifier, _regressor, reads, stored, started, half_run, predict_ok, data>>

\* predict_radius: _regressor.predict and staged_predict
PredictRegress(t) ==
    /\ thr[t].pc = "regress"
    /\ half_run' = (half_run \/ HalfLoaded)
    /\ thr' = Goto(t, "persist")
    /\ UNCHANGED <<disk, _classifier, _regressor, reads, stored, started, predict_ok, data>>

\* predict: the Prediction row is added and committed, the result returned.
\* A commit the database refuses raises, and the row is not stored.
PredictPersist(t) ==
    /\ thr[t].pc = "persist"
    /\ \E o \in {"committed", "raises"} :
          IF o = "committed"
          THEN /\ stored' = stored + 1
               /\ thr' = [thr EXCEPT ![t].pc = "done", ![t].status = 200]
          ELSE /\ stored' = stored
               /\ thr' = Raise(t, "Exception")
    /\ UNCHANGED <<disk, _classifier, _regressor, reads, started, half_run, predict_ok, data>>

\* _load: both files must exist, or FileNotFoundError is raised.
LoadExists(t) ==
    /\ thr[t].pc = "load_exists"
    /\ thr' = IF disk["classifier"] = "missing" \/ disk["regressor"] = "missing"
              THEN Raise(t, "FileNotFoundError")
              ELSE Goto(t, "load_classifier")
    /\ UNCHANGED <<disk, _classifier, _regressor, reads, stored, started, half_run, predict_ok, data>>

\* _load: _classifier = joblib.load(clf_path)
LoadClassifier(t) ==
    /\ thr[t].pc = "load_classifier"
    /\ reads' = reads + 1
    /\ \E o \in JoblibLoad("classifier") :
          IF o = "loaded"
          THEN /\ _classifier' = Some("classifier.pkl")
               /\ thr' = Goto(t, "load_regressor")
          ELSE /\ _classifier' = _classifier
               /\ thr' = Raise(t, o)
    /\ UNCHANGED <<disk, _regressor, stored, started, half_run, predict_ok, data>>

\* _load: _regressor = joblib.load(reg_path), and the return to the caller.
LoadRegressor(t) ==
    /\ thr[t].pc = "load_regressor"
    /\ \E o \in JoblibLoad("regressor") :
          IF o = "loaded"
          THEN /\ _regressor' = Some("regressor.pkl")
               /\ thr' = [thr EXCEPT ![t].pc = thr[t].ret, ![t].ret = ""]
          ELSE /\ _regressor' = _regressor
               /\ thr' = Raise(t, o)
    /\ UNCHANGED <<disk, _classifier, reads, stored, started, half_run, predict_ok, data>>

\* discovery: scaler = joblib.load(scaler_path)
DiscoveryScaler(t) ==
    /\ thr[t].pc = "scaler"
    /\ \E o \in JoblibLoad("scaler") :
          thr' = IF o = "loaded" THEN Goto(t, "ensure") ELSE Raise(t, o)
    /\ UNCHANGED <<disk, _classifier, _regressor, reads, stored, started, half_run, predict_ok, data>>

\* discovery: if _classifier is None: _load()
DiscoveryEnsureLoaded(t) ==
    /\ thr[t].pc = "ensure"
    /\ thr' = IF _classifier = None
              THEN [thr EXCEPT ![t].pc = "load_exists", ![t].ret = "batch_classify"]
              ELSE Goto(t, "batch_classify")
    /\ UNCHANGED <<disk, _classifier, _regressor, reads, stored, started, half_run, predict_ok, data>>

\* discovery: _inf._classifier.predict and predict_proba on the batch
DiscoveryClassify(t) ==
    /\ thr[t].pc = "batch_classify"
    /\ half_run' = (half_run \/ HalfLoaded)
    /\ thr' = Goto(t, "batch_regress")
    /\ UNCHANGED <<disk, _classifier, _regressor, reads, stored, started, predict_ok, data>>

\* discovery: _inf._regressor.predict on the batch (AttributeError on None),
\* then the results are built and returned.
DiscoveryRegress(t) ==
    /\ thr[t].pc = "batch_regress"
    /\ thr' = IF _regressor = None
              THEN Raise(t, "AttributeError")
              ELSE [thr EXCEPT ![t].pc = "done", ![t].status = 200]
    /\ UNCHANGED <<disk, _classifier, _regressor, reads, stored, started, half_run, predict_ok, data>>

\* The response has been sent; the thread is free again.
Finish(t) ==
    /\ thr[t].pc = "done"
    /\ thr' = [thr EXCEPT ![t] = IdleThread]
    /\ predict_ok' = IF thr[t].kind = "predict" /\ thr[t].status = 200
                     THEN predict_ok + 1 ELSE predict_ok
    /\ UNCHANGED <<disk, _classifier, _regressor, reads, stored, started, half_run, data>>

PredictInputs == {"valid", "missing", "non_numeric", "out_of_range"}

NextServe ==
    \E t \in Threads :
        \/ \E input \in PredictInputs : Accept(t, "predict", input)
        \/ Accept(t, "discovery", "")
        \/ PredictValidate(t)
        \/ PredictPreprocess(t)
        \/ PredictClassification(t)
        \/ PredictClassify(t)
        \/ PredictRadius(t)
        \/ PredictRegress(t)
        \/ PredictPersist(t)
        \/ LoadExists(t)
        \/ LoadClassifier(t)
        \/ LoadRegressor(t)
        \/ DiscoveryScaler(t)
        \/ DiscoveryEnsureLoaded(t)
        \/ DiscoveryClassify(t)
        \/ DiscoveryRegress(t)
        \/ Finish(t)

SpecServe == InitServe /\ [][NextServe]_vars

\* ------------------------------------------------------------------------
\* Properties of _assign_roles and _compute_priority_score
\* ------------------------------------------------------------------------

RoleOrder == << "Radial Velocity Observer", "Transit Photometrist", "Centroid Analyst",
                "Statistical Validator", "Atmospheric Scientist",
                "Stellar Characterization", "Dynamical Analyst" >>

RoleNames(rs) == [i \in DOMAIN rs |-> rs[i].role]
HasRole(rs, name) == \E i \in DOMAIN rs : rs[i].role = name
RolePriority(rs) == [i \in DOMAIN rs |-> <<rs[i].role, rs[i].priority>>]

\* The candidate of the rule-engine test scenario: snr 8, depth 50, insol 1.0,
\* multiplicity 1, teff 5000, slogg 4.4, srad 1.0, uncertainty fields present,
\* with conf 0.70, fpProb 0.30, radius 3.0.
ScenarioCalled ==
    /\ cand = Candidate(Params(50, 80, 5000, 440, 100), Some(1), Some(10000), TRUE)
    /\ pred = Prediction(70000, 30000, 30000)

\* C1 as stated: the scenario yields exactly Radial Velocity Observer (MEDIUM,
\* HARPS-N), Transit Photometrist (HIGH, CHEOPS), Centroid Analyst (HIGH),
\* Statistical Validator (MEDIUM), and none of the other three roles.
C1_ScenarioAsStated ==
    ScenarioCalled =>
        /\ RolePriority(roles) = << <<"Radial Velocity Observer", "MEDIUM">>,
                                    <<"Transit Photometrist", "HIGH">>,
                                    <<"Centroid Analyst", "HIGH">>,
                                    <<"Statistical Validator", "MEDIUM">> >>
        /\ roles[1].instrument = "HARPS-N"
        /\ roles[2].instrument = "CHEOPS"

\* C1 amended: the scenario yields exactly Radial Velocity Observer (HIGH,
\* HARPS-N), Transit Photometrist (HIGH, CHEOPS), Centroid Analyst (MEDIUM),
\* Statistical Validator (MEDIUM), and no Atmospheric Scientist, Stellar
\* Characterization or Dynamical Analyst assignment.
C1_Scenario ==
    ScenarioCalled =>
        /\ RolePriority(roles) = << <<"Radial Velocity Observer", "HIGH">>,
                                    <<"Transit Photometrist", "HIGH">>,
                                    <<"Centroid Analyst", "MEDIUM">>,
                                    <<"Statistical Validator", "MEDIUM">> >>
        /\ roles[1].instrument = "HARPS-N"
        /\ roles[2].instrument = "CHEOPS"
        /\ ~HasRole(roles, "Atmospheric Scientist")
        /\ ~HasRole(roles, "Stellar Characterization")
        /\ ~HasRole(roles, "Dynamical Analyst")

C1_Witness == ScenarioCalled /\ Len(roles) = 4

\* The rule table of the specification, written on the call's arguments.
TableInHZ == ~IsNone(cand.insol) /\ Val(cand.insol) > 0
             /\ 2500 <= Val(cand.insol) /\ Val(cand.insol) <= 17500

TableTrigger(k) ==
    LET conf == pred.conf_prob
        radius == pred.radius
        par == cand.params
    IN  CASE k = 1 -> conf >= 65000
          [] k = 2 -> (40000 <= conf /\ conf <= 85000) \/ par.koi_model_snr < 150
                      \/ par.koi_depth < 100
          [] k = 3 -> pred.fp_prob >= 25000
          [] k = 4 -> 35000 <= conf /\ conf <= 80000
          [] k = 5 -> /\ conf >= 75000
                      /\ 15000 <= radius /\ radius <= 100000
                      /\ (TableInHZ \/ (par.koi_steff < 4500 /\ par.koi_srad < 70))
          [] k = 6 -> \/ par.koi_srad > 300
                      \/ par.koi_slogg < 350
                      \/ par.koi_steff > 7500
                      \/ ~cand.has_err_data
          [] k = 7 -> ~IsNone(cand.koi_count) /\ Val(cand.koi_count) > 1

TablePriority(k) ==
    LET conf == pred.conf_prob
        radius == pred.radius
        par == cand.params
    IN  CASE k = 1 -> IF TableInHZ /\ radius < 40000 THEN "HIGH"
                      ELSE IF conf > 80000 THEN "MEDIUM" ELSE "STANDARD"
          [] k = 2 -> IF par.koi_model_snr < 100 THEN "HIGH"
                      ELSE IF conf < 65000 THEN "MEDIUM" ELSE "STANDARD"
          [] k = 3 -> IF pred.fp_prob >= 50000 THEN "HIGH" ELSE "MEDIUM"
          [] k = 4 -> IF 45000 <= conf /\ conf <= 65000 THEN "HIGH" ELSE "MEDIUM"
          [] k = 5 -> IF TableInHZ /\ radius < 40000 THEN "HIGH" ELSE "MEDIUM"
          [] k = 6 -> IF par.koi_srad > 500 \/ par.koi_slogg < 300 THEN "HIGH"
                      ELSE "MEDIUM"
          [] k = 7 -> IF Val(cand.koi_count) >= 3 THEN "HIGH" ELSE "MEDIUM"

\* The two roles whose instrument is selected and not fixed.
TableInstrument(k) ==
    CASE k = 1 -> IF pred.radius < 20000 THEN "ESPRESSO"
                  ELSE IF pred.radius < 60000 THEN "HARPS-N" ELSE "HIRES"
      [] k = 2 -> IF cand.params.koi_depth < 200 THEN "CHEOPS" ELSE "TESS Extended"

\* C2: after a call of _assign_roles, role k is in the returned list if and
\* only if trigger condition k of the rule table holds of the arguments, for
\* each k in 1..7 on its own.
C2_Triggers ==
    pred # None =>
        \A k \in 1..7 : HasRole(roles, RoleOrder[k]) <=> TableTrigger(k)

C2_Witness ==
    /\ pred # None
    /\ RoleNames(roles) = << "Centroid Analyst", "Stellar Characterization" >>

\* C3: every assignment _assign_roles returns carries the priority tier of its
\* rule, and the Radial Velocity Observer and Transit Photometrist carry the
\* instrument their rule selects.
C3_PriorityAndInstrument ==
    pred # None =>
        \A i \in DOMAIN roles : \A k \in 1..7 :
            roles[i].role = RoleOrder[k] =>
                /\ roles[i].priority = TablePriority(k)
                /\ k \in {1, 2} => roles[i].instrument = TableInstrument(k)

C3_Witness ==
    /\ pred # None
    /\ Len(roles) = 7
    /\ roles[1].priority = "STANDARD" /\ roles[1].instrument = "HIRES"
    /\ roles[2].priority = "HIGH" /\ roles[2].instrument = "CHEOPS"
    /\ roles[7].priority = "HIGH"

\* The five contributions of the score as the specification lists them.
TableScoreSum ==
    LET conf == pred.conf_prob
        radius == pred.radius
        snr == cand.params.koi_model_snr
        insol == cand.insol
        count == cand.koi_count
        confidence == IF 60000 <= conf /\ conf <= 90000 THEN 30
                      ELSE IF conf > 90000 THEN 20
                      ELSE IF 40000 <= conf /\ conf < 60000 THEN 25 ELSE 5
        habitable == IF insol = None THEN 0
                     ELSE IF 2500 <= Val(insol) /\ Val(insol) <= 17500 THEN 25
                     ELSE IF 1000 <= Val(insol) /\ Val(insol) <= 30000 THEN 10 ELSE 0
        size == IF radius < 15000 THEN 20 ELSE IF radius < 25000 THEN 15
                ELSE IF radius < 40000 THEN 10 ELSE IF radius < 80000 THEN 5 ELSE 0
        multi == IF count = None \/ Val(count) <= 1 THEN 0
                 ELSE IF (Val(count) - 1) * 2 < 5 THEN 10 + (Val(count) - 1) * 2 ELSE 15
        quality == IF snr > 200 THEN 10 ELSE IF snr > 100 THEN 5 ELSE 0
    IN  confidence + habitable + size + multi + quality

\* conf 0.75, insol 1.0, radius 1.0, multiplicity 6, snr 25.
MaximalScoreCall ==
    /\ pred = Prediction(75000, 25000, 10000)
    /\ cand = Candidate(Params(50, 250, 5000, 440, 100), Some(6), Some(10000), TRUE)

\* C4: _compute_priority_score returns min(100, the sum of the five listed
\* contributions), a value in 0..100; the five maximal inputs give exactly 100.
C4_Score ==
    pred # None =>
        /\ score = (IF TableScoreSum < 100 THEN TableScoreSum ELSE 100)
        /\ 0 <= score /\ score <= 100
        /\ MaximalScoreCall => score = 100

C4_Witness == MaximalScoreCall /\ score = 100

\* ------------------------------------------------------------------------
\* Properties of the discovery endpoint
\* ------------------------------------------------------------------------

Answered == phase = "answered" /\ resp.status = 200

\* The position of a role name in rule-evaluation order.
RuleNumber(name) == CHOOSE k \in 1..7 : RoleOrder[k] = name

\* C5: in every record of a response the role_assignments are in
\* rule-evaluation order with no role twice, they are the list _assign_roles
\* built for that row whatever the filters, sort and page of the request, and
\* num_roles is the length of the list.
C5_RoleOrder ==
    Answered =>
        \A n \in DOMAIN resp.data :
            LET r == resp.data[n]
                as == r.role_assignments
                row == rows[r.index + 1]
                radius == IF row.reg_pred > 0 THEN row.reg_pred ELSE 0
            IN  /\ \A i, j \in DOMAIN as :
                       i < j => RuleNumber(as[i].role) < RuleNumber(as[j].role)
                /\ \A k \in 1..7 :
                       HasRole(as, RoleOrder[k]) <=>
                           HasRole(_assign_roles(row.cls_proba[2], row.cls_proba[1],
                                       radius, row.params, row.koi_count,
                                       row.koi_insol, row.has_err), RoleOrder[k])
                /\ r.num_roles = Len(as)

C5_Witness ==
    /\ Answered
    /\ req.sort = "num_roles" /\ req.dir = "asc" /\ req.hz_only = "false"
    /\ Len(resp.data) = 3
    /\ resp.data[1].num_roles = 2
    /\ resp.data[3].num_roles = 6
    /\ resp.data[3].role_assignments[6].priority = "HIGH"

\* C6: whatever the sort key and direction, two records of the response with
\* equal sort-key values stand in the order of the batch (ascending index).
C6_SortStable ==
    Answered =>
        \A i, j \in DOMAIN resp.data :
            (i < j /\ SortKey(req.sort, resp.data[i]) = SortKey(req.sort, resp.data[j]))
                => resp.data[i].index < resp.data[j].index

C6_Witness ==
    /\ Answered
    /\ req.sort = "conf_prob" /\ req.dir = "desc"
    /\ Len(resp.data) = 3
    /\ rows[resp.data[1].index + 1] = RowC
    /\ rows[resp.data[2].index + 1] = RowB
    /\ rows[resp.data[3].index + 1] = RowA

\* The slices the handler cuts from results for the page numbers 1..n at
\* page size per_page, one after the other.
PagesConcatenated(results, per_page, n) ==
    LET F[p \in 0..n] ==
            IF p = 0 THEN << >>
            ELSE F[p - 1] \o Paginate(results, p, per_page)
    IN  F[n]

\* C7: for a page size >= 1 the response's page count is
\* ceil(total_filtered / per_page), the data of the response is the handler's
\* slice for its page number, and the slices for pages 1..pages of the same
\* query concatenated are the filtered, sorted sequence: nothing missing,
\* nothing twice.
C7_PagesCoverAll ==
    (Answered /\ req.per_page >= 1) =>
        LET results == FilterSort(rows, req)
        IN  /\ resp.pages * req.per_page >= resp.total_filtered
            /\ (resp.pages - 1) * req.per_page < resp.total_filtered \/ resp.pages = 0
            /\ resp.data = Paginate(results, req.page, req.per_page)
            /\ PagesConcatenated(results, req.per_page, resp.pages) = results

C7_Witness ==
    /\ Answered
    /\ req.per_page = 2 /\ req.page = 2
    /\ resp.pages = 2 /\ resp.total_filtered = 3
    /\ Len(resp.data) = 1

\* C8 as stated: on a batch with classified candidates, for a well-formed
\* query with a page size >= 1,
\* the request does not fail, and a page number outside 1..pages (beyond the
\* last page, zero or negative) is answered with an empty data list.
C8_OutOfRangePageEmpty ==
    (/\ phase = "answered"
     /\ ParseArgs(args).ok
     /\ req.per_page >= 1
     /\ SelectSeq(rows, IsComplete) # << >>) =>
        /\ resp.status = 200
        /\ (req.page < 1 \/ req.page > resp.pages) => resp.data = << >>

\* The four filters of the specification, on one enriched record.
SatisfiesFilters(r) ==
    /\ req.role # "" => \E i \in DOMAIN r.role_assignments :
                            r.role_assignments[i].role = req.role
    /\ req.priority # "" => \E i \in DOMAIN r.role_assignments :
                                r.role_assignments[i].priority = req.priority
    /\ req.hz_only = "true" => r.in_habitable_zone
    /\ req.min_score > 0 => r.priority_score >= req.min_score

\* C9: the filtered set is exactly the set of enriched candidates that
\* satisfy every supplied filter: total_filtered counts them, and a page that
\* holds the whole result holds exactly them.
C9_FiltersConjunctive ==
    Answered =>
        LET all == BuildResults(rows)
            expected == { all[k].index : k \in { k \in DOMAIN all : SatisfiesFilters(all[k]) } }
        IN  /\ resp.total_filtered = Cardinality(expected)
            /\ (req.page = 1 /\ req.per_page >= Len(rows)) =>
                   { resp.data[i].index : i \in DOMAIN resp.data } = expected

C9_Witness ==
    /\ Answered
    /\ req.role = "Radial Velocity Observer" /\ req.priority = "MEDIUM"
    /\ req.hz_only = "true" /\ req.min_score = 65
    /\ resp.classified = 3
    /\ resp.total_filtered = 2
    /\ Len(resp.data) = 2

\* C10: the summary and total_filtered of a response are those of the same
\* query asked for page 1 with the default page size; so any two requests
\* that differ only in page and page size get the same summary and
\* total_filtered.
C10_SummaryBeforePagination ==
    Answered =>
        LET first == discovery(rows, [req EXCEPT !.page = 1, !.per_page = 20])
        IN  /\ resp.summary = first.summary
            /\ resp.total_filtered = first.total_filtered

C10_Witness ==
    /\ Answered
    /\ req.page = 2 /\ req.per_page = 1
    /\ resp.total_filtered = 3
    /\ Len(resp.data) = 1
    /\ resp.summary.habitable_zone = 2
    /\ Len(resp.summary.role_breakdown) = 7

\* ------------------------------------------------------------------------
\* Properties of the summary
\* ------------------------------------------------------------------------

\* The assignments of role name in the filtered set rs, as (record, position).
RoleInstances(rs, name) ==
    { ij \in (DOMAIN rs) \X (1..7) :
        /\ ij[2] \in DOMAIN rs[ij[1]].role_assignments
        /\ rs[ij[1]].role_assignments[ij[2]].role = name }

\* The role names with at least one assignment in rs.
RolesOccurring(rs) ==
    { name \in { RoleOrder[k] : k \in 1..7 } : RoleInstances(rs, name) # {} }

\* C11: the role breakdown has one entry per role name occurring in the
\* filtered set and no other; an entry's count is the number of assignments
\* with its role, its percentage (in units of 0.1) is count / total_filtered
\* * 100 rounded to one decimal, with the number of filtered candidates as
\* denominator; counts do not increase along the list; and a request whose
\* filtered set is empty is answered (status 200, for a well-formed query with
\* a page size >= 1 on a batch with classified candidates) with no entry and
\* no percentage but 0.
C11_RoleBreakdown ==
    /\ Answered =>
          LET rs == FilterSort(rows, req)
              bd == resp.summary.role_breakdown
          IN  /\ { bd[i].role : i \in DOMAIN bd } = RolesOccurring(rs)
              /\ Len(bd) = Cardinality(RolesOccurring(rs))
              /\ \A i \in DOMAIN bd :
                    /\ bd[i].count = Cardinality(RoleInstances(rs, bd[i].role))
                    /\ bd[i].percentage =
                          IF Len(rs) = 0 THEN 0
                          ELSE RoundHalfEven(bd[i].count * 1000, Len(rs))
              /\ \A i, j \in DOMAIN bd : i < j => bd[i].count >= bd[j].count
    /\ (/\ phase = "answered"
        /\ ParseArgs(args).ok
        /\ req.per_page >= 1
        /\ SelectSeq(rows, IsComplete) # << >>
        /\ FilterSort(rows, req) = << >>) =>
          /\ resp.status = 200
          /\ resp.summary.role_breakdown = << >>

\* Three filtered candidates with thirteen role instances: a role held by two
\* of the three is reported at 66.7 percent.
C11_Witness ==
    /\ Answered
    /\ resp.total_filtered = 3
    /\ Len(AllAssignments(FilterSort(rows, req))) = 13
    /\ \E i \in DOMAIN resp.summary.role_breakdown :
          /\ resp.summary.role_breakdown[i].count = 2
          /\ resp.summary.role_breakdown[i].percentage = 667
    /\ \E i \in DOMAIN resp.summary.role_breakdown :
          /\ resp.summary.role_breakdown[i].count = 3
          /\ resp.summary.role_breakdown[i].percentage = 1000

\* Sum of num_roles over the records of rs.
SumNumRoles(rs) ==
    LET F[k \in 0..Len(rs)] == IF k = 0 THEN 0 ELSE F[k - 1] + rs[k].num_roles
    IN  F[Len(rs)]

\* Sum of the counts of the entries of a role breakdown.
SumCounts(bd) ==
    LET F[k \in 0..Len(bd)] == IF k = 0 THEN 0 ELSE F[k - 1] + bd[k].count
    IN  F[Len(bd)]

\* C12: the priority distribution has exactly the keys HIGH, MEDIUM and
\* STANDARD; each is the number of assignments of that tier in the filtered
\* set; and their sum is the sum of num_roles over the filtered candidates,
\* which is also the sum of the counts of the role breakdown.
C12_PriorityDistribution ==
    Answered =>
        LET rs == FilterSort(rows, req)
            pd == resp.summary.priority_distribution
        IN  /\ DOMAIN pd = {"HIGH", "MEDIUM", "STANDARD"}
            /\ \A tier \in DOMAIN pd :
                  pd[tier] = Cardinality({ ij \in (DOMAIN rs) \X (1..7) :
                                 /\ ij[2] \in DOMAIN rs[ij[1]].role_assignments
                                 /\ rs[ij[1]].role_assignments[ij[2]].priority = tier })
            /\ pd["HIGH"] + pd["MEDIUM"] + pd["STANDARD"] = SumNumRoles(rs)
            /\ SumNumRoles(rs) = SumCounts(resp.summary.role_breakdown)

\* Two filtered candidates holding ten assignments, of all three tiers.
C12_Witness ==
    /\ Answered
    /\ resp.total_filtered = 2
    /\ SumNumRoles(FilterSort(rows, req)) = 10
    /\ resp.summary.priority_distribution["HIGH"] >= 3
    /\ resp.summary.priority_distribution["MEDIUM"] >= 1
    /\ resp.summary.priority_distribution["STANDARD"] >= 1

\* ------------------------------------------------------------------------
\* Properties of the server
\* ------------------------------------------------------------------------

\* A discovery request has been answered without results: in this
\* specification only a failure of the inference boundary does that (a model
\* or scaler file missing or unreadable, or a batch call that raises).
DiscoveryFailed(t) ==
    /\ thr[t].kind = "discovery"
    /\ thr[t].pc = "done"
    /\ thr[t].status # 200

\* C13 as stated: a discovery batch on which the inference boundary fails is
\* answered with the "service unavailable" status, 503, and without results.
C13_FailedBatchUnavailable ==
    \A t \in Threads : DiscoveryFailed(t) => thr[t].status = 503

\* The threads that are executing _load.
Loading == { t \in Threads : thr[t].pc \in {"load_exists", "load_classifier", "load_regressor"} }

\* C15 as stated: at most one execution of _load is in progress at a time,
\* and classifier.pkl is read from disk at most once.
C15_LoadCoalesced ==
    /\ Cardinality(Loading) <= 1
    /\ reads <= 1

\* C16 as stated: whenever no load is in progress, both models are loaded or
\* neither is (also after a load that failed part-way), and no prediction
\* call, batch or single, has run while exactly one of the two was loaded.
C16_LoadAtomic ==
    /\ Loading = {} => ~HalfLoaded
    /\ ~half_run

\* ------------------------------------------------------------------------
\* Properties of the query parameters
\* ------------------------------------------------------------------------

\* C14 as stated: a request with an unparseable or unknown query value (on a
\* batch with classified candidates) is still answered with a result: status
\* 200, with the affected parameter ignored or at its default.
C14_OddQueryAnswered ==
    (/\ phase = "answered"
     /\ args \in OddRequests
     /\ SelectSeq(rows, IsComplete) # << >>) => resp.status = 200

\* ------------------------------------------------------------------------
\* Properties of the batch
\* ------------------------------------------------------------------------

\* The 0-based file positions of the complete candidates of the dataset.
CompleteIndexes == { k - 1 : k \in { k \in DOMAIN rows : IsComplete(rows[k]) } }

\* The request carries no filter.
Unfiltered ==
    /\ req.role = "" /\ req.priority = ""
    /\ req.hz_only # "true" /\ req.min_score <= 0

\* The record d carries the inference outputs of the row it is indexed by.
PairedWithOwnRow(d) ==
    LET row == rows[d.index + 1]
    IN  /\ d.confirmation_probability = Round(row.cls_proba[2], 10)
        /\ d.predicted_radius = Round(IF row.reg_pred > 0 THEN row.reg_pred ELSE 0, 10)
        /\ d.prediction = (IF row.cls_pred = 1 THEN "CONFIRMED" ELSE "FALSE POSITIVE")
        /\ d.koi_period = Round(row.koi_period, 10)

\* C17: the batch has exactly one record per complete candidate, in file
\* order before the sort, each carrying the inference outputs of its own
\* row; rows missing a feature (and rows that are no candidates) give no
\* record; classified counts the complete candidates and is at most
\* total_candidates; and without filters total_filtered = classified and the
\* page holding everything holds exactly these records.
C17_OneRecordPerComplete ==
    Answered =>
        LET results == BuildResults(rows)
        IN  /\ Len(results) = Cardinality(CompleteIndexes)
            /\ { results[i].index : i \in DOMAIN results } = CompleteIndexes
            /\ \A i, j \in DOMAIN results : i < j => results[i].index < results[j].index
            /\ \A i \in DOMAIN results : PairedWithOwnRow(results[i])
            /\ \A i \in DOMAIN resp.data :
                  resp.data[i].index \in CompleteIndexes /\ PairedWithOwnRow(resp.data[i])
            /\ resp.classified = Cardinality(CompleteIndexes)
            /\ resp.total_candidates =
                  Cardinality({ k \in DOMAIN rows : IsCandidate(rows[k]) })
            /\ resp.classified <= resp.total_candidates
            /\ Unfiltered => resp.total_filtered = resp.classified
            /\ (Unfiltered /\ req.page = 1 /\ req.per_page >= Len(rows)) =>
                  /\ Len(resp.data) = resp.classified
                  /\ { resp.data[i].index : i \in DOMAIN resp.data } = CompleteIndexes

\* A candidate missing a feature, a complete candidate and a confirmed
\* planet, in this order: one record, with file index 1.
C17_Witness ==
    /\ Answered
    /\ Unfiltered
    /\ Len(rows) = 3
    /\ ~IsComplete(rows[1]) /\ IsComplete(rows[2]) /\ ~IsCandidate(rows[3])
    /\ rows[1].koi_disposition = "CANDIDATE"
    /\ resp.total_candidates = 2
    /\ resp.classified = 1
    /\ resp.total_filtered = 1
    /\ Len(resp.data) = 1 /\ resp.data[1].index = 1

\* ------------------------------------------------------------------------
\* Properties of the habitable zone and of the role count
\* ------------------------------------------------------------------------

\* Insolation present, greater than 0 and within [0.25, 1.75], in units of
\* 0.0001.
InZone(insol) ==
    /\ insol # None
    /\ Val(insol) > 0
    /\ Val(insol) >= 2500 /\ Val(insol) <= 17500

\* C18: the in_habitable_zone flag of an enriched record is true if and only
\* if the insolation is present, greater than 0 and within [0.25, 1.75]: true
\* at exactly 0.25 and 1.75, false at 0.2499 and 1.7501, false when absent,
\* zero or negative.
C18_HabitableZoneFlag ==
    enriched # None =>
        /\ Val(enriched).in_habitable_zone = InZone(cand.insol)
        /\ cand.insol \in {Some(2500), Some(17500)} => Val(enriched).in_habitable_zone
        /\ cand.insol \in {None, Some(-1), Some(0), Some(2499), Some(17501)} =>
              ~Val(enriched).in_habitable_zone

C18_Witness ==
    /\ enriched # None
    /\ cand.insol = Some(17500)
    /\ Val(enriched).in_habitable_zone

\* The score without its habitable-zone component, for the call of the loop.
ScoreWithoutZone ==
    ScoreConfidence(pred.conf_prob)
        + ScoreSmallPlanet(IF pred.radius > 0 THEN pred.radius ELSE 0)
        + ScoreMultiPlanet(cand.koi_count) + ScoreSnr(cand.params.koi_model_snr)

\* C19: for every insolation the flag of the record is the in_hz of
\* _assign_roles (a Radial Velocity Observer of a planet below 4 R_earth is
\* HIGH exactly when the flag is set), and the score holds the 25-point
\* bonus exactly when the flag is set.
C19_ZoneAgreement ==
    enriched # None =>
        LET flag == Val(enriched).in_habitable_zone
            radius == IF pred.radius > 0 THEN pred.radius ELSE 0
        IN  /\ flag = AssignRolesInHz(cand.insol)
            /\ (pred.conf_prob >= 65000 /\ radius < 40000) =>
                  (flag <=> roles[1] = [ role |-> "Radial Velocity Observer",
                                         priority |-> "HIGH",
                                         instrument |-> roles[1].instrument ])
            /\ flag <=> ScoreHabitableZone(cand.insol) = 25
            /\ ScoreWithoutZone + 25 <= 100 => (flag <=> score = ScoreWithoutZone + 25)

\* Insolation 3.0: outside the zone for the flag and for the roles, and worth
\* the 10 points of the wider zone in the score, not the 25.
C19_Witness ==
    /\ enriched # None
    /\ cand.insol = Some(30000)
    /\ pred.conf_prob = 70000 /\ pred.radius = 30000
    /\ ~Val(enriched).in_habitable_zone
    /\ roles[1].role = "Radial Velocity Observer" /\ roles[1].priority = "STANDARD"
    /\ score = ScoreWithoutZone + 10

\* C20: when the false-positive probability is 1 minus the confirmation
\* probability, every record has at least one assignment: a Radial Velocity
\* Observer, a Transit Photometrist or a Centroid Analyst.
C20_AtLeastOneRole ==
    (enriched # None /\ pred.fp_prob = 100000 - pred.conf_prob) =>
        /\ Val(enriched).num_roles >= 1
        /\ \/ HasRole(roles, "Radial Velocity Observer")
           \/ HasRole(roles, "Transit Photometrist")
           \/ HasRole(roles, "Centroid Analyst")

\* A deep, clean signal of a lone planet at conf 0.85001: beyond the
\* photometrist's band and below the centroid threshold, one role is left.
C20_Witness ==
    /\ enriched # None
    /\ pred.conf_prob = 85001 /\ pred.fp_prob = 14999
    /\ cand.params.koi_model_snr = 250 /\ cand.params.koi_depth = 300
    /\ cand.koi_count = Some(1)
    /\ HasRole(roles, "Radial Velocity Observer")
    /\ ~HasRole(roles, "Transit Photometrist")
    /\ ~HasRole(roles, "Centroid Analyst")

\* ------------------------------------------------------------------------
\* Properties of the stored predictions
\* ------------------------------------------------------------------------

\* The predict requests whose handler has returned status st and whose
\* response is not yet sent.
Returning(st) ==
    { t \in Threads : thr[t].kind = "predict" /\ thr[t].pc = "done" /\ thr[t].status = st }

\* C21: the number of stored Prediction rows is the number of predict
\* requests answered with status 200, those whose response is on its way
\* included; so when no predict response is under way the two counts are
\* equal, and a request that ends with 400 or 503 has stored nothing.
C21_StoredOnlyOnSuccess ==
    /\ stored = predict_ok + Cardinality(Returning(200))
    /\ Returning(200) = {} => stored = predict_ok

\* One request has been stored and answered; a second one has just been
\* rejected with 400 and has left the table as it was.
C21_Witness ==
    /\ stored = 1
    /\ predict_ok = 1
    /\ Returning(400) # {}
    /\ Returning(200) = {}

\* C22: every count of the summary is bounded by the number of filtered
\* candidates: each role's count is at most total_filtered and its
\* percentage at most 100; habitable_zone is at most total_filtered; and
\* confirmed_predictions and false_positive_predictions are non-negative,
\* count the filtered records of their label and add up to total_filtered.
C22_SummaryBounded ==
    Answered =>
        LET rs == FilterSort(rows, req)
            sm == resp.summary
            Labelled(label) == Cardinality({ i \in DOMAIN rs : rs[i].prediction = label })
        IN  /\ resp.total_filtered = Len(rs)
            /\ \A i \in DOMAIN sm.role_breakdown :
                  /\ sm.role_breakdown[i].count >= 1
                  /\ sm.role_breakdown[i].count <= resp.total_filtered
                  /\ sm.role_breakdown[i].percentage <= 1000
            /\ sm.habitable_zone >= 0
            /\ sm.habitable_zone <= resp.total_filtered
            /\ sm.confirmed_predictions >= 0
            /\ sm.false_positive_predictions >= 0
            /\ sm.confirmed_predictions = Labelled("CONFIRMED")
            /\ sm.false_positive_predictions = Labelled("FALSE POSITIVE")
            /\ sm.confirmed_predictions + sm.false_positive_predictions
                  = resp.total_filtered

\* Three filtered candidates, two predicted confirmed and one false positive,
\* one of them in the zone, and a role that all three hold: 100 percent.
C22_Witness ==
    /\ Answered
    /\ resp.total_filtered = 3
    /\ resp.summary.confirmed_predictions = 2
    /\ resp.summary.false_positive_predictions = 1
    /\ resp.summary.habitable_zone = 1
    /\ \E i \in DOMAIN resp.summary.role_breakdown :
          /\ resp.summary.role_breakdown[i].count = 3
          /\ resp.summary.role_breakdown[i].percentage = 1000

====
